---------------------------- MODULE Spec2Model ----------------------------
(***************************************************************************)
(* A model of permpy's Permutation class (src/permpy/permutation.py).      *)
(*                                                                         *)
(* A Python tuple/list t of length n is the TLA+ sequence s of length n    *)
(* with s[i+1] = t[i]: indices written in the formulas below are the       *)
(* source's zero-based indices, and the operators At, index, Slice hide    *)
(* the shift by one.  Values of a permutation are the source's values      *)
(* 0..n-1.                                                                 *)
(*                                                                         *)
(* The specifications share the variables:                                *)
(*   SpecAlgebra        a client holding one Permutation and calling the   *)
(*                      algebra on it (ind2perm, perm2ind, insert, delete, *)
(*                      skew_sum, sum, complement, reverse, inverse and    *)
(*                      composition);                                      *)
(*   SpecContainment    one pattern instance, with its bound cache,        *)
(*                      queried against hosts (involved_in, avoids,        *)
(*                      occurrences);                                      *)
(*   SpecDecomposition  decomposition()'s loop, one iteration per step,    *)
(*                      inflate, and the interval queries                  *)
(*                      (maximal_interval, simple_location, is_simple);    *)
(*   SpecDecompositionFair  one call of decomposition() under the fairness *)
(*                      of sequential code, for its termination.           *)
(***************************************************************************)
EXTENDS Integers, Sequences, FiniteSets, TLC

VARIABLES
    self,           \* the Permutation instance the calls are made on
    out,            \* the last call: its name, arguments and outcome
    prev,           \* the call before the last one (SpecAlgebra)
    host,           \* the permutation a pattern is searched in (SpecContainment)
    lower_bound,    \* self.lower_bound   (permutation.py:27)
    upper_bound,    \* self.upper_bound   (permutation.py:28)
    bounds_set,     \* self.bounds_set    (permutation.py:29)
    base,           \* decomposition()'s local `base`
    components,     \* decomposition()'s local `components`
    pc,             \* where decomposition() stands
    iterations      \* how many times the body of decomposition()'s loop ran

vars == <<self, out, prev, host, lower_bound, upper_bound, bounds_set,
          base, components, pc, iterations>>

---------------------------------------------------------------------------
(* Bounds of the model. *)

\* longest permutation held by the client of SpecAlgebra
MaxLen == 3
\* how far outside [0, len] an index argument of insert/delete is drawn
MaxOut == 2
\* longest pattern queried in SpecContainment
MaxPattern == 3
\* longest host a pattern is searched in
MaxHost == 4
\* longest permutation decomposed in SpecDecomposition
MaxDecomp == 5
\* longest permutation whose decomposition() is followed to its return under
\* fairness
MaxTerminate == 4
\* longest base permutation inflate is called on with arbitrary components
MaxBase == 3
\* longest component handed to inflate
MaxComp == 2

---------------------------------------------------------------------------
(* Python list and tuple primitives. *)

Min(a, b) == IF a < b THEN a ELSE b

Max(a, b) == IF a < b THEN b ELSE a

\* t[i] for 0 <= i < len(t)
At(t, i) == t[i + 1]

\* list(range(n))
Range(n) == [i \in 1..n |-> i - 1]

\* t.index(x): the first position holding x
index(t, x) == (CHOOSE i \in 1..Len(t) :
                    t[i] = x /\ \A j \in 1..(i - 1) : t[j] # x) - 1

\* a slice bound as Python normalises it: negative counts from the end,
\* and everything is clamped to [0, n]
SliceBound(i, n) == IF i < 0 THEN Max(i + n, 0) ELSE Min(i, n)

\* t[a:b]
Slice(t, a, b) == SubSeq(t, SliceBound(a, Len(t)) + 1, SliceBound(b, Len(t)))

\* the largest / smallest entry of a non-empty list
max(t) == CHOOSE x \in {t[i] : i \in 1..Len(t)} :
              \A j \in 1..Len(t) : t[j] <= x

min(t) == CHOOSE x \in {t[i] : i \in 1..Len(t)} :
              \A j \in 1..Len(t) : x <= t[j]

\* the flattening [a for sl in NL for a in sl]
RECURSIVE Flatten(_)
Flatten(NL) == IF NL = <<>> THEN <<>> ELSE Head(NL) \o Flatten(Tail(NL))

RECURSIVE factorial(_)
factorial(n) == IF n <= 0 THEN 1 ELSE n * factorial(n - 1)

\* the outcome "no exception was raised"
NoError == "none"

---------------------------------------------------------------------------
(* Construction. *)

\* standardize(L): the rank of every element, by its place in the sorted list.
\* The source asserts that the elements are distinct; every list the model
\* hands over is.
standardize(L) ==
    LET ordered == SortSeq(L, LAMBDA a, b : a < b)
    IN  [i \in 1..Len(L) |-> index(ordered, L[i])]

\* Permutation(p) for a list or tuple p: the standardization of its entries
Permutation(p) == standardize(p)

\* the tuples that are permutations of 0..n-1
PermsOfLen(n) == {s \in [1..n -> 0..(n - 1)] :
                      \A i, j \in 1..n : i # j => s[i] # s[j]}

PermsUpTo(n) == UNION {PermsOfLen(k) : k \in 0..n}

IsPermutation(t) == /\ DOMAIN t = 1..Len(t)
                    /\ \A v \in 0..(Len(t) - 1) :
                           Cardinality({i \in 1..Len(t) : t[i] = v}) = 1

\* the swap(i, j) closure of ind2perm and perm2ind
swap(t, i, j) == [t EXCEPT ![i + 1] = t[j + 1], ![j + 1] = t[i + 1]]

\* the loop `for i in range(n, 0, -1)` of ind2perm, from i down
RECURSIVE ind2perm_loop(_, _, _)
ind2perm_loop(result, k, i) ==
    IF i < 1 THEN result
    ELSE ind2perm_loop(swap(result, i - 1, k % i), k \div i, i - 1)

\* an ind2perm whose loop starts at n-1 and so never places the last entry
ind2perm_skip_last(k, n) == Permutation(ind2perm_loop(Range(n), k, n - 1))

ind2perm(k, n) == Permutation(ind2perm_loop(Range(n), k, n))

\* the loop `for i in range(n-1, 0, -1)` of perm2ind, from i down
RECURSIVE perm2ind_loop(_, _, _, _)
perm2ind_loop(q, result, multiplier, i) ==
    IF i < 1 THEN result
    ELSE perm2ind_loop(swap(q, i, index(q, i)),
                       result + At(q, i) * multiplier,
                       multiplier * (i + 1),
                       i - 1)

\* a perm2ind whose multiplier grows by i instead of i+1
perm2ind_multiplier_i(p) ==
    LET RECURSIVE loop(_, _, _, _)
        loop(q, result, multiplier, i) ==
            IF i < 1 THEN result
            ELSE loop(swap(q, i, index(q, i)),
                      result + At(q, i) * multiplier,
                      multiplier * i,
                      i - 1)
    IN  loop(p, 0, 1, Len(p) - 1)

perm2ind(p) == perm2ind_loop(p, 0, 1, Len(p) - 1)

---------------------------------------------------------------------------
(* Insertion, deletion, sums. *)

\* `del p[idx]`: Python raises IndexError outside [-len, len-1] and counts
\* a negative index from the end
delete_list(p, idx) ==
    LET n == Len(p)
        i == IF idx < 0 THEN idx + n ELSE idx
    IN  IF idx < -n \/ idx >= n
        THEN [raised |-> "IndexError", value |-> <<>>]
        ELSE [raised |-> NoError,
              value  |-> SubSeq(p, 1, i) \o SubSeq(p, i + 2, n)]

delete(p, idx) ==
    LET d == delete_list(p, idx)
    IN  IF d.raised # NoError THEN d
        ELSE [raised |-> NoError, value |-> Permutation(d.value)]

\* an insert that places the new entry after position idx, not before it
insert_after(p, idx, val) ==
    LET shifted == [k \in 1..Len(p) |-> IF p[k] >= val THEN p[k] + 1 ELSE p[k]]
    IN  Permutation(Slice(shifted, 0, idx + 1) \o <<val>>
                        \o Slice(shifted, idx + 1, Len(shifted)))

insert(p, idx, val) ==
    LET shifted == [k \in 1..Len(p) |-> IF p[k] >= val THEN p[k] + 1 ELSE p[k]]
    IN  Permutation(Slice(shifted, 0, idx) \o <<val>>
                        \o Slice(shifted, idx, Len(shifted)))

\* a skew_sum that shifts Q instead of self, as sum does
skew_sum_shift_Q(p, Q) ==
    Permutation(p \o [i \in 1..Len(Q) |-> Q[i] + Len(p)])

skew_sum(p, Q) ==
    Permutation([i \in 1..Len(p) |-> p[i] + Len(Q)] \o Q)

\* p.sum(Q): self, then Q's entries each increased by len(self)
sum(p, Q) ==
    Permutation(p \o [i \in 1..Len(Q) |-> Q[i] + Len(p)])

---------------------------------------------------------------------------
(* Symmetries and composition. *)

\* a complement that subtracts from len(self) and is not standardized
complement_from_len(p) == [i \in 1..Len(p) |-> Len(p) - p[i]]

\* p.complement(): [n-1-i for i in self]
complement(p) == Permutation([i \in 1..Len(p) |-> Len(p) - 1 - p[i]])

\* p.reverse(): q = list(self); q.reverse()
reverse(p) == Permutation([i \in 1..Len(p) |-> p[Len(p) - i + 1]])

\* the loop `for i in range(n): q[p[i]] = i` of inverse, from i on
RECURSIVE inverse_loop(_, _, _)
inverse_loop(p, q, i) ==
    IF i >= Len(p) THEN q
    ELSE inverse_loop(p, [q EXCEPT ![At(p, i) + 1] = i], i + 1)

\* an inverse that returns the permutation's reverse
inverse_as_reverse(p) == reverse(p)

\* p.inverse()
inverse(p) == Permutation(inverse_loop(p, [j \in 1..Len(p) |-> 0], 0))

\* self * other: L = list(other); L[i] = self(L[i]); the assertion fails when
\* the lengths differ
mul(p, other) ==
    IF Len(p) # Len(other)
    THEN [raised |-> "AssertionError", value |-> <<>>]
    ELSE [raised |-> NoError,
          value  |-> Permutation([i \in 1..Len(other) |-> At(p, other[i])])]

---------------------------------------------------------------------------
(* SpecAlgebra: a client holds one Permutation (self) and calls the        *)
(* algebra on it; a call that returns a Permutation hands the client the   *)
(* new instance.  out is the last call, prev the one before it.            *)

NoCall == [op |-> "new"]

\* the fields of the other two specifications, which SpecAlgebra leaves alone
ContainmentIdle == /\ host = <<>>
                   /\ lower_bound = <<>>
                   /\ upper_bound = <<>>
                   /\ bounds_set = FALSE

DecompositionIdle == /\ base = <<>>
                     /\ components = <<>>
                     /\ pc = "idle"
                     /\ iterations = 0

AlgebraInit == /\ self \in PermsUpTo(MaxLen)
               /\ out = NoCall
               /\ prev = NoCall
               /\ ContainmentIdle
               /\ DecompositionIdle

AlgebraFrame == UNCHANGED <<host, lower_bound, upper_bound, bounds_set,
                            base, components, pc, iterations>>

\* the client chains at most two calls before it forgets them
CanCall == prev = NoCall

\* p = Permutation.ind2perm(k, n)
Ind2perm(k, n) ==
    /\ CanCall
    /\ out' = [op |-> "ind2perm", k |-> k, n |-> n,
               raised |-> NoError, res |-> ind2perm(k, n)]
    /\ prev' = out
    /\ self' = out'.res
    /\ AlgebraFrame

\* self.perm2ind()
Perm2ind ==
    /\ CanCall
    /\ out' = [op |-> "perm2ind", recv |-> self,
               raised |-> NoError, res |-> perm2ind(self)]
    /\ prev' = out
    /\ UNCHANGED self
    /\ AlgebraFrame

\* p = self.insert(idx, val)
Insert(idx, val) ==
    /\ CanCall
    /\ Len(self) < MaxLen
    /\ out' = [op |-> "insert", recv |-> self, idx |-> idx, val |-> val,
               raised |-> NoError, res |-> insert(self, idx, val)]
    /\ prev' = out
    /\ self' = out'.res
    /\ AlgebraFrame

\* p = self.delete(idx); an IndexError leaves the client with self
Delete(idx) ==
    LET d == delete(self, idx)
    IN  /\ CanCall
        /\ out' = [op |-> "delete", recv |-> self, idx |-> idx,
                   raised |-> d.raised, res |-> d.value]
        /\ prev' = out
        /\ self' = IF d.raised = NoError THEN d.value ELSE self
        /\ AlgebraFrame

\* p = self.skew_sum(Q)
SkewSum(Q) ==
    /\ CanCall
    /\ out' = [op |-> "skew_sum", recv |-> self, Q |-> Q,
               raised |-> NoError, res |-> skew_sum(self, Q)]
    /\ prev' = out
    /\ self' = out'.res
    /\ AlgebraFrame

\* p = self.sum(Q)
Sum(Q) ==
    /\ CanCall
    /\ out' = [op |-> "sum", recv |-> self, Q |-> Q,
               raised |-> NoError, res |-> sum(self, Q)]
    /\ prev' = out
    /\ self' = out'.res
    /\ AlgebraFrame

\* p = self.complement()
Complement ==
    /\ CanCall
    /\ out' = [op |-> "complement", recv |-> self,
               raised |-> NoError, res |-> complement(self)]
    /\ prev' = out
    /\ self' = out'.res
    /\ AlgebraFrame

\* p = self.reverse()
Reverse ==
    /\ CanCall
    /\ out' = [op |-> "reverse", recv |-> self,
               raised |-> NoError, res |-> reverse(self)]
    /\ prev' = out
    /\ self' = out'.res
    /\ AlgebraFrame

\* p = self.inverse()
Inverse ==
    /\ CanCall
    /\ out' = [op |-> "inverse", recv |-> self,
               raised |-> NoError, res |-> inverse(self)]
    /\ prev' = out
    /\ self' = out'.res
    /\ AlgebraFrame

\* p = self * other; an AssertionError leaves the client with self
Mul(other) ==
    LET r == mul(self, other)
    IN  /\ CanCall
        /\ out' = [op |-> "mul", recv |-> self, other |-> other,
                   raised |-> r.raised, res |-> r.value]
        /\ prev' = out
        /\ self' = IF r.raised = NoError THEN r.value ELSE self
        /\ AlgebraFrame

\* the client keeps the permutation it holds and forgets the calls made
Forget ==
    /\ out # NoCall
    /\ out' = NoCall
    /\ prev' = NoCall
    /\ UNCHANGED self
    /\ AlgebraFrame

\* the index arguments drawn for a permutation of length n
IndexArgs(n) == (0 - n - MaxOut)..(n + MaxOut)

AlgebraNext ==
    \/ \E n \in 0..MaxLen : \E k \in 0..(factorial(n) - 1) : Ind2perm(k, n)
    \/ Perm2ind
    \/ \E idx \in IndexArgs(Len(self)) : \E val \in 0..Len(self) :
           Insert(idx, val)
    \/ \E idx \in IndexArgs(Len(self)) : Delete(idx)
    \/ \E Q \in PermsUpTo(MaxLen - Len(self)) : SkewSum(Q)
    \/ \E Q \in PermsUpTo(MaxLen - Len(self)) : Sum(Q)
    \/ Complement
    \/ Reverse
    \/ Inverse
    \/ \E other \in PermsUpTo(MaxLen) : Mul(other)
    \/ Forget

SpecAlgebra == AlgebraInit /\ [][AlgebraNext]_vars

---------------------------------------------------------------------------
(* The bound table and the containment search. *)

\* the inner loop `for j in range(i+1, len(self))` of set_up_bounds, from j
\* on; st holds min_above, max_below and the two entries written for i
RECURSIVE set_up_bounds_scan(_, _, _, _)
set_up_bounds_scan(L, i, j, st) ==
    IF j >= Len(L) THEN st
    ELSE IF At(L, j) < At(L, i)
    THEN IF At(L, j) > st.max_below
         THEN set_up_bounds_scan(L, i, j + 1,
                  [st EXCEPT !.max_below = At(L, j), !.lower = j])
         ELSE set_up_bounds_scan(L, i, j + 1, st)
    ELSE IF At(L, j) < st.min_above \/ st.min_above = -1
         THEN set_up_bounds_scan(L, i, j + 1,
                  [st EXCEPT !.min_above = At(L, j), !.upper = j])
         ELSE set_up_bounds_scan(L, i, j + 1, st)

\* a set_up_bounds that records the nearest later position holding a
\* smaller (larger) value instead of the one holding the closest value
set_up_bounds_nearest(L) ==
    LET later(i, below) == {j \in (i + 1)..(Len(L) - 1) :
                               (At(L, j) < At(L, i)) = below}
        first(S) == IF S = {} THEN -1
                    ELSE CHOOSE j \in S : \A k \in S : j <= k
    IN  [lower_bound |-> [i \in 1..Len(L) |-> first(later(i - 1, TRUE))],
         upper_bound |-> [i \in 1..Len(L) |-> first(later(i - 1, FALSE))]]

\* set_up_bounds(): the pair (lower_bound, upper_bound), -1 for "none"
set_up_bounds(L) ==
    LET row(i) == set_up_bounds_scan(L, i, i + 1,
                      [min_above |-> -1, max_below |-> -1,
                       lower |-> -1, upper |-> -1])
    IN  [lower_bound |-> [i \in 1..Len(L) |-> row(i - 1).lower],
         upper_bound |-> [i \in 1..Len(L) |-> row(i - 1).upper]]

\* an involvement_fits that checks the lower bound only
involvement_fits_lower_only(ub, lb, indices, q, next) ==
    \/ At(lb, next) = -1
    \/ At(q, At(indices, next)) > At(q, At(indices, At(lb, next)))

involvement_fits(ub, lb, indices, q, next) ==
    /\ \/ At(lb, next) = -1
       \/ At(q, At(indices, next)) > At(q, At(indices, At(lb, next)))
    /\ \/ At(ub, next) = -1
       \/ At(q, At(indices, next)) < At(q, At(indices, At(ub, next)))

\* involvement_check, and its loop `while indices[next] >= 0`
RECURSIVE involvement_check(_, _, _, _, _)
RECURSIVE involvement_check_while(_, _, _, _, _)
involvement_check(ub, lb, indices, q, next) ==
    IF next < 0 THEN TRUE
    ELSE involvement_check_while(ub, lb,
             [indices EXCEPT ![next + 1] = At(indices, next + 1) - 1],
             q, next)

involvement_check_while(ub, lb, indices, q, next) ==
    IF At(indices, next) < 0 THEN FALSE
    ELSE IF /\ involvement_fits(ub, lb, indices, q, next)
            /\ involvement_check(ub, lb, indices, q, next - 1)
    THEN TRUE
    ELSE involvement_check_while(ub, lb,
             [indices EXCEPT ![next + 1] = @ - 1], q, next)

\* an involvement_check_final that accepts the pinned positions unchecked
involvement_check_final_unchecked(ub, lb, indices, q, n, last_require) == TRUE

\* involvement_check_final: the pinned positions n-2, ..., n-last_require
involvement_check_final(ub, lb, indices, q, n, last_require) ==
    \A i \in 1..(last_require - 1) :
        involvement_fits(ub, lb, indices, q, n - i - 1)

\* the loop `while indices[len(self)-1] >= 0` of involved_in
RECURSIVE involved_in_while(_, _, _, _, _)
involved_in_while(ub, lb, indices, P, n) ==
    IF At(indices, n - 1) < 0 THEN FALSE
    ELSE IF involvement_check(ub, lb, indices, P, n - 2) THEN TRUE
    ELSE involved_in_while(ub, lb, [indices EXCEPT ![n] = @ - 1], P, n)

\* the search of involved_in, after the bound cache is in place
involved_in_search(L, ub, lb, P, last_require) ==
    LET n == Len(L)
        p == Len(P)
        zeros == [i \in 1..n |-> 0]
    IN  IF n <= 1 /\ n <= p THEN TRUE
        ELSE IF last_require = 0
        THEN involved_in_while(ub, lb, [zeros EXCEPT ![n] = p - 1], P, n)
        ELSE LET pinned == [i \in 1..n |->
                               IF i > n - last_require THEN p - (n - i + 1)
                               ELSE 0]
             IN  IF ~involvement_check_final(ub, lb, pinned, P, n, last_require)
                 THEN FALSE
                 ELSE involvement_check(ub, lb, pinned, P,
                                        n - last_require - 1)

\* an involved_in that computes the bounds at every query and never sets
\* bounds_set
involved_in_bounds_unset(L, cache) ==
    [lower_bound |-> set_up_bounds(L).lower_bound,
     upper_bound |-> set_up_bounds(L).upper_bound,
     bounds_set  |-> FALSE]

\* the bound cache involved_in leaves on the instance: computed when
\* bounds_set is false, kept otherwise
involved_in_bounds(L, cache) ==
    IF cache.bounds_set THEN cache
    ELSE [lower_bound |-> set_up_bounds(L).lower_bound,
          upper_bound |-> set_up_bounds(L).upper_bound,
          bounds_set  |-> TRUE]

\* the entries of t at the positions S, in increasing order of position:
\* one tuple of itertools.combinations
RECURSIVE Subsequence(_, _)
Subsequence(t, S) ==
    IF S = {} THEN <<>>
    ELSE LET m == CHOOSE x \in S : \A y \in S : x <= y
         IN  <<t[m]>> \o Subsequence(t, S \ {m})

\* p.occurrences(pattern)
occurrences(p, pattern) ==
    Cardinality({S \in SUBSET (1..Len(p)) :
                    /\ Cardinality(S) = Len(pattern)
                    /\ Permutation(Subsequence(p, S)) = pattern})

---------------------------------------------------------------------------
(* SpecContainment: one pattern instance (self) with its bound cache,      *)
(* queried against the host the client holds; after a query the client     *)
(* may pick another host.  last_require is drawn from 0..min(len(self),    *)
(* len(host)), the range in which the pinned indices are positions of the  *)
(* host.                                                                   *)

ContainmentInit == /\ self \in PermsUpTo(MaxPattern)
                   /\ host \in PermsUpTo(MaxHost)
                   /\ out = NoCall
                   /\ prev = NoCall
                   /\ lower_bound = <<>>
                   /\ upper_bound = <<>>
                   /\ bounds_set = FALSE
                   /\ DecompositionIdle

ContainmentFrame == UNCHANGED <<self, prev, host, base, components, pc,
                                iterations>>

Cache == [lower_bound |-> lower_bound, upper_bound |-> upper_bound,
          bounds_set |-> bounds_set]

\* what a query writes to the instance
SetCache(c) == /\ lower_bound' = c.lower_bound
               /\ upper_bound' = c.upper_bound
               /\ bounds_set' = c.bounds_set

\* self.involved_in(host, last_require)
InvolvedIn(last_require) ==
    LET c == involved_in_bounds(self, Cache)
    IN  /\ SetCache(c)
        /\ out' = [op |-> "involved_in", P |-> host,
                   last_require |-> last_require,
                   res |-> involved_in_search(self, c.upper_bound,
                               c.lower_bound, host, last_require)]
        /\ ContainmentFrame

\* host.avoids(self, lr): not self.involved_in(host, last_require=lr)
Avoids(lr) ==
    LET c == involved_in_bounds(self, Cache)
    IN  /\ SetCache(c)
        /\ out' = [op |-> "avoids", P |-> host, last_require |-> lr,
                   res |-> ~involved_in_search(self, c.upper_bound,
                                c.lower_bound, host, lr)]
        /\ ContainmentFrame

\* host.occurrences(self)
Occurrences ==
    /\ out' = [op |-> "occurrences", P |-> host, last_require |-> 0,
               res |-> occurrences(host, self)]
    /\ UNCHANGED <<lower_bound, upper_bound, bounds_set>>
    /\ ContainmentFrame

\* the hosts drawn
Hosts == PermsUpTo(MaxHost)

\* the client drops the answer and picks the host of its next query
NewHost(P) ==
    /\ host' = P
    /\ out' = NoCall
    /\ UNCHANGED <<self, prev, lower_bound, upper_bound, bounds_set,
                   base, components, pc, iterations>>

ContainmentNext ==
    \/ \E k \in 0..Min(Len(self), Len(host)) : InvolvedIn(k)
    \/ \E k \in 0..Min(Len(self), Len(host)) : Avoids(k)
    \/ Occurrences
    \/ /\ out # NoCall
       /\ \E P \in Hosts : NewHost(P)

SpecContainment == ContainmentInit /\ [][ContainmentNext]_vars

---------------------------------------------------------------------------
(* Intervals, decomposition and inflation. *)

\* a test that only windows of two positions pass
interval_test_pairs_only(p, i, j) ==
    /\ i = 2
    /\ max(Slice(p, j, j + i)) - min(Slice(p, j, j + i)) = i - 1

\* the test of maximal_interval: the window p[j:j+i] spans i values
interval_test(p, i, j) ==
    max(Slice(p, j, j + i)) - min(Slice(p, j, j + i)) = i - 1

\* a scan whose starts j stop at len-i-1, one short of the last window
RECURSIVE maximal_interval_scan_short_row(_, _, _)
maximal_interval_scan_short_row(p, i, j) ==
    IF i < 2 THEN <<0, 0>>
    ELSE IF j > Len(p) - i - 1
         THEN maximal_interval_scan_short_row(p, i - 1, 0)
    ELSE IF interval_test(p, i, j) THEN <<i, j>>
    ELSE maximal_interval_scan_short_row(p, i, j + 1)

\* the loops of maximal_interval: lengths i from len-1 down to 2, starts j
\* from 0 to len-i; the first window that passes is returned as (i, j)
RECURSIVE maximal_interval_scan(_, _, _)
maximal_interval_scan(p, i, j) ==
    IF i < 2 THEN <<0, 0>>
    ELSE IF j > Len(p) - i THEN maximal_interval_scan(p, i - 1, 0)
    ELSE IF interval_test(p, i, j) THEN <<i, j>>
    ELSE maximal_interval_scan(p, i, j + 1)

\* a maximal_interval whose test compares max - min with i instead of i-1
maximal_interval_off_by_one(p) ==
    LET RECURSIVE scan(_, _)
        scan(i, j) ==
            IF i < 2 THEN <<0, 0>>
            ELSE IF j > Len(p) - i THEN scan(i - 1, 0)
            ELSE IF max(Slice(p, j, j + i)) - min(Slice(p, j, j + i)) = i
                 THEN <<i, j>>
                 ELSE scan(i, j + 1)
    IN  scan(Len(p) - 1, 0)

maximal_interval(p) == maximal_interval_scan(p, Len(p) - 1, 0)

\* a scan whose inner loop runs j from len-1 down to i+1 only
RECURSIVE simple_location_scan_skip_first(_, _, _, _, _, _)
simple_location_scan_skip_first(p, last, i, j, mins, maxs) ==
    IF i > last THEN <<0, 0>>
    ELSE IF j < i + 1
         THEN simple_location_scan_skip_first(p, last, i + 1, Len(p) - 1,
                                              mins, maxs)
    ELSE LET mins2 == [mins EXCEPT ![j + 1] = Min(At(mins, j - 1), At(p, j))]
             maxs2 == [maxs EXCEPT ![j + 1] = Max(At(maxs, j - 1), At(p, j))]
         IN  IF At(maxs2, j) - At(mins2, j) = i THEN <<i, j>>
             ELSE simple_location_scan_skip_first(p, last, i, j - 1,
                                                  mins2, maxs2)

\* the loops of simple_location: i from 1 to len-2, j from len-1 down to i,
\* with the running minima and maxima of the windows p[j-i .. j]
RECURSIVE simple_location_scan(_, _, _, _, _, _)
simple_location_scan(p, last, i, j, mins, maxs) ==
    IF i > last THEN <<0, 0>>
    ELSE IF j < i THEN simple_location_scan(p, last, i + 1, Len(p) - 1, mins, maxs)
    ELSE LET mins2 == [mins EXCEPT ![j + 1] = Min(At(mins, j - 1), At(p, j))]
             maxs2 == [maxs EXCEPT ![j + 1] = Max(At(maxs, j - 1), At(p, j))]
         IN  IF At(maxs2, j) - At(mins2, j) = i THEN <<i, j>>
             ELSE simple_location_scan(p, last, i, j - 1, mins2, maxs2)

\* a simple_location whose outer loop stops one short, at len-3
simple_location_short(p) ==
    simple_location_scan(p, Len(p) - 3, 1, Len(p) - 1, p, p)

simple_location(p) ==
    simple_location_scan(p, Len(p) - 2, 1, Len(p) - 1, p, p)

is_simple(p) == simple_location(p)[1] = 0

\* inflate's block for the entry at position index: the entries of
\* components[index], each increased by current_entry
inflate_block_no_shift(cs, idx, current_entry) == At(cs, idx)

inflate_block(cs, idx, current_entry) ==
    [i \in 1..Len(At(cs, idx)) |-> At(cs, idx)[i] + current_entry]

\* inflate's `current_entry += len(components[index])`
inflate_advance_one(cs, idx, current_entry) == current_entry + 1

inflate_advance(cs, idx, current_entry) == current_entry + Len(At(cs, idx))

\* the loop `for entry in range(0, len(self))` of inflate, from entry on
RECURSIVE inflate_loop(_, _, _, _, _)
inflate_loop(L, cs, NL, current_entry, entry) ==
    IF entry >= Len(L) THEN NL
    ELSE LET idx == index(L, entry)
         IN  inflate_loop(L, cs,
                 [NL EXCEPT ![idx + 1] = inflate_block(cs, idx, current_entry)],
                 inflate_advance(cs, idx, current_entry),
                 entry + 1)

\* p.inflate(components); the assertion fails when the lengths differ
inflate(p, cs) ==
    IF Len(p) # Len(cs)
    THEN [raised |-> "AssertionError", value |-> <<>>]
    ELSE [raised |-> NoError,
          value  |-> Permutation(Flatten(inflate_loop(p, cs, p, 0, 0)))]

---------------------------------------------------------------------------
(* SpecDecomposition: self.decomposition(), one loop iteration per step,   *)
(* followed by base.inflate(components) on what it returned;               *)
(* self.inflate(cs) on arbitrary components; and up to two of the interval *)
(* queries maximal_interval, simple_location, is_simple on self.           *)

DecompositionInit == /\ self \in PermsUpTo(MaxDecomp)
                     /\ out = NoCall
                     /\ prev = NoCall
                     /\ ContainmentIdle
                     /\ DecompositionIdle

DecompositionFrame == UNCHANGED <<host, lower_bound, upper_bound, bounds_set>>

\* lines 913-914: base is a copy of self, every component Permutation([1])
DecompositionEnter ==
    /\ pc = "idle"
    /\ out = NoCall
    /\ base' = self
    /\ components' = [i \in 1..Len(self) |-> Permutation(<<1>>)]
    /\ pc' = "loop"
    /\ iterations' = 0
    /\ UNCHANGED <<self, out, prev>>
    /\ DecompositionFrame

\* an iteration that records the interval as a component and leaves base as
\* it was
DecompositionIterateKeepsBase ==
    /\ pc = "loop"
    /\ ~is_simple(base)
    /\ LET mi == maximal_interval(base)
           i == mi[1]
           j == mi[2]
           interval == Slice(base, j, i + j)
       IN  /\ components' = [components EXCEPT ![j + 1] = Permutation(interval)]
           /\ pc' = "loop"
           /\ iterations' = iterations + 1
    /\ UNCHANGED <<self, out, prev, base>>
    /\ DecompositionFrame

\* lines 915-927: one iteration of `while not base.is_simple()`
DecompositionIterate ==
    /\ pc = "loop"
    /\ ~is_simple(base)
    /\ LET mi == maximal_interval(base)
           i == mi[1]
           j == mi[2]
           interval == Slice(base, j, i + j)
           new_base == Slice(base, 0, j) \o <<At(base, j)>>
                           \o Slice(base, i + j, Len(base))
           new_components == Slice(components, 0, j)
                                 \o <<Permutation(interval)>>
                                 \o Slice(components, i + j, Len(base))
       IN  IF Len(base) # Len(components) \/ i = 0
           THEN /\ pc' = "AssertionError"
                /\ UNCHANGED <<base, components, iterations>>
           ELSE /\ base' = Permutation(new_base)
                /\ components' = new_components
                /\ pc' = "loop"
                /\ iterations' = iterations + 1
    /\ UNCHANGED <<self, out, prev>>
    /\ DecompositionFrame

\* line 928: return (base, components)
DecompositionReturn ==
    /\ pc = "loop"
    /\ is_simple(base)
    /\ out' = [op |-> "decomposition", recv |-> self,
               base |-> base, components |-> components]
    /\ prev' = out
    /\ pc' = "done"
    /\ UNCHANGED <<self, base, components, iterations>>
    /\ DecompositionFrame

\* base.inflate(components) on the pair decomposition() returned
InflateDecomposition ==
    /\ pc = "done"
    /\ LET r == inflate(out.base, out.components)
       IN  out' = [op |-> "inflate", recv |-> out.base,
                   components |-> out.components,
                   raised |-> r.raised, res |-> r.value]
    /\ prev' = out
    /\ pc' = "inflated"
    /\ UNCHANGED <<self, base, components, iterations>>
    /\ DecompositionFrame

\* self.inflate(cs) for arbitrary components
Inflate(cs) ==
    /\ LET r == inflate(self, cs)
       IN  out' = [op |-> "inflate", recv |-> self, components |-> cs,
                   raised |-> r.raised, res |-> r.value]
    /\ prev' = out
    /\ pc' = "inflated"
    /\ UNCHANGED <<self, base, components, iterations>>
    /\ DecompositionFrame

\* self.maximal_interval()
MaximalInterval ==
    /\ pc = "idle"
    /\ CanCall
    /\ out' = [op |-> "maximal_interval", recv |-> self,
               res |-> maximal_interval(self)]
    /\ prev' = out
    /\ UNCHANGED <<self, base, components, pc, iterations>>
    /\ DecompositionFrame

\* self.simple_location()
SimpleLocation ==
    /\ pc = "idle"
    /\ CanCall
    /\ out' = [op |-> "simple_location", recv |-> self,
               res |-> simple_location(self)]
    /\ prev' = out
    /\ UNCHANGED <<self, base, components, pc, iterations>>
    /\ DecompositionFrame

\* self.is_simple()
IsSimple ==
    /\ pc = "idle"
    /\ CanCall
    /\ out' = [op |-> "is_simple", recv |-> self, res |-> is_simple(self)]
    /\ prev' = out
    /\ UNCHANGED <<self, base, components, pc, iterations>>
    /\ DecompositionFrame

\* the component lists drawn for a short self: up to MaxBase permutations
\* of length <= MaxComp
ComponentLists == UNION {[1..m -> PermsUpTo(MaxComp)] : m \in 0..MaxBase}

DecompositionNext ==
    \/ DecompositionEnter
    \/ DecompositionIterate
    \/ DecompositionReturn
    \/ InflateDecomposition
    \/ MaximalInterval
    \/ SimpleLocation
    \/ IsSimple
    \/ /\ pc = "idle"
       /\ out = NoCall
       /\ Len(self) <= MaxBase
       /\ \E cs \in ComponentLists : Inflate(cs)

SpecDecomposition == DecompositionInit /\ [][DecompositionNext]_vars

\* one call of self.decomposition() and nothing else
DecompositionCallNext ==
    \/ DecompositionEnter
    \/ DecompositionIterate
    \/ DecompositionReturn

DecompositionCallInit == /\ self \in PermsUpTo(MaxTerminate)
                         /\ out = NoCall
                         /\ prev = NoCall
                         /\ ContainmentIdle
                         /\ DecompositionIdle

\* decomposition() is sequential code: once entered, its loop keeps running
\* until it returns
SpecDecompositionFair ==
    /\ DecompositionCallInit
    /\ [][DecompositionCallNext]_vars
    /\ WF_vars(DecompositionIterate)
    /\ WF_vars(DecompositionReturn)

---------------------------------------------------------------------------
(* Claims about the algebra, checked under SpecAlgebra. *)

\* the last two calls were p.insert(idx, val) with idx and val inside
\* [0, len(p)], and then .delete(idx) on the permutation insert returned
InsertThenDelete ==
    /\ prev.op = "insert"
    /\ out.op = "delete"
    /\ out.recv = prev.res
    /\ out.idx = prev.idx
    /\ prev.idx \in 0..Len(prev.recv)
    /\ prev.val \in 0..Len(prev.recv)

\* C4: for every permutation p, every index i in [0, len(p)] and every value
\* v in [0, len(p)], p.insert(i, v).delete(i) returns p.
C4_InsertDeleteInverse ==
    InsertThenDelete => (out.raised = NoError /\ out.res = prev.recv)

\* an insertion below the top value into the middle of a permutation of
\* length 2, deleted again
C4_Witness ==
    /\ InsertThenDelete
    /\ Len(prev.recv) = 2
    /\ prev.idx = 1
    /\ prev.val = 1
    /\ out.res = prev.recv

\* C5: ind2perm and perm2ind are exact inverses: for n >= 1 and k in
\* 0..n!-1, ind2perm(k, n).perm2ind() is k; for a permutation p of length
\* n >= 1, ind2perm(p.perm2ind(), n) is p; and ind2perm(k, n) is a
\* permutation of length n.
C5_IndexBijection ==
    /\ (/\ prev.op = "ind2perm"
        /\ prev.n >= 1
        /\ prev.k \in 0..(factorial(prev.n) - 1)
        /\ out.op = "perm2ind"
        /\ out.recv = prev.res) => out.res = prev.k
    /\ (/\ prev.op = "perm2ind"
        /\ Len(prev.recv) >= 1
        /\ out.op = "ind2perm"
        /\ out.k = prev.res
        /\ out.n = Len(prev.recv)) => out.res = prev.recv
    /\ (out.op = "ind2perm" /\ out.n >= 1) =>
           (out.res \in PermsOfLen(out.n) /\ out.k \in 0..(factorial(out.n) - 1))

\* a round trip from an index that is neither the first nor the last of S_3
C5_Witness ==
    /\ prev.op = "ind2perm"
    /\ prev.n = 3
    /\ prev.k = 4
    /\ out.op = "perm2ind"
    /\ out.recv = prev.res
    /\ out.res = 4

\* C6 as the specification states it: ind2perm(0, 3) returns (0,1,2) and
\* perm2ind of (0,1,2) returns 0.
C6_IndexZeroIsIdentity ==
    /\ (out.op = "ind2perm" /\ out.k = 0 /\ out.n = 3) => out.res = <<0, 1, 2>>
    /\ (out.op = "perm2ind" /\ out.recv = <<0, 1, 2>>) => out.res = 0

\* C6, amended: ind2perm(0, 3) returns (1,2,0), whose perm2ind is 0; the
\* identity (0,1,2) has the last index, perm2ind returns 5 = 3!-1 for it, and
\* ind2perm(5, 3) returns (0,1,2).
C6_IndexZeroIsRotation ==
    /\ (out.op = "ind2perm" /\ out.k = 0 /\ out.n = 3) => out.res = <<1, 2, 0>>
    /\ (out.op = "perm2ind" /\ out.recv = <<1, 2, 0>>) => out.res = 0
    /\ (out.op = "perm2ind" /\ out.recv = <<0, 1, 2>>) => out.res = 5
    /\ (out.op = "ind2perm" /\ out.k = 5 /\ out.n = 3) => out.res = <<0, 1, 2>>

\* ind2perm(0, 3) was called and perm2ind called on what it returned
C6_Witness ==
    /\ prev.op = "ind2perm"
    /\ prev.k = 0
    /\ prev.n = 3
    /\ out.op = "perm2ind"
    /\ out.recv = <<1, 2, 0>>

\* self's entries, each increased by len(Q)
ShiftedBy(p, Q) == [i \in 1..Len(p) |-> p[i] + Len(Q)]

\* C8 as the specification states it: the first len(Q) entries of
\* p.skew_sum(Q) are Q's entries and the remaining len(p) entries are p's,
\* each increased by len(Q).
C8_SkewSumQFirst ==
    out.op = "skew_sum" =>
        /\ SubSeq(out.res, 1, Len(out.Q)) = out.Q
        /\ SubSeq(out.res, Len(out.Q) + 1, Len(out.res))
               = ShiftedBy(out.recv, out.Q)

\* C8, amended: p.skew_sum(Q) shifts self's values up by len(Q) and places
\* self first: the first len(p) entries of the result are p's entries each
\* increased by len(Q) and the remaining len(Q) entries are Q's, unchanged.
C8_SkewSumSelfFirst ==
    out.op = "skew_sum" =>
        /\ Len(out.res) = Len(out.recv) + Len(out.Q)
        /\ SubSeq(out.res, 1, Len(out.recv)) = ShiftedBy(out.recv, out.Q)
        /\ SubSeq(out.res, Len(out.recv) + 1, Len(out.res)) = out.Q

\* a skew sum of a permutation with a longer one
C8_Witness ==
    /\ out.op = "skew_sum"
    /\ Len(out.recv) = 1
    /\ Len(out.Q) = 2
    /\ out.res = <<2>> \o out.Q

\* C10: insert with idx outside [0, len(p)] and delete with idx outside
\* [0, len(p)-1] end in an error and return no permutation.
C10_OutOfRangeRejected ==
    /\ (out.op = "insert" /\ out.idx \notin 0..Len(out.recv))
           => out.raised # NoError
    /\ (out.op = "delete" /\ out.idx \notin 0..(Len(out.recv) - 1))
           => out.raised # NoError

\* C14: inverse involution.  For every permutation p, p.inverse() is the
\* permutation q with q[p[i]] == i for all i, and p.inverse().inverse() is p.
C14_InverseInvolution ==
    /\ out.op = "inverse" =>
           /\ Len(out.res) = Len(out.recv)
           /\ \A i \in 0..(Len(out.recv) - 1) :
                  At(out.res, At(out.recv, i)) = i
    /\ (/\ prev.op = "inverse"
        /\ out.op = "inverse"
        /\ out.recv = prev.res) => out.res = prev.recv

\* a permutation that is not its own inverse, inverted twice
C14_Witness ==
    /\ prev.op = "inverse"
    /\ prev.recv = <<1, 2, 0>>
    /\ prev.res = <<2, 0, 1>>
    /\ out.op = "inverse"
    /\ out.recv = prev.res
    /\ out.res = <<1, 2, 0>>

\* the calls that return a permutation
PermutationOps == {"ind2perm", "insert", "delete", "skew_sum", "sum",
                   "complement", "reverse", "inverse", "mul"}

\* C15: validity is preserved by every operation: after any sequence of
\* insert, delete, reverse, complement, inverse, sum, skew_sum and
\* composition with a permutation of equal length, the value held is a tuple
\* of some length n that contains every value of [0, n) exactly once, and so
\* is everything a call returned.
C15_ValidityPreserved ==
    /\ IsPermutation(self)
    /\ (out.op \in PermutationOps /\ out.raised = NoError) =>
           IsPermutation(out.res)

\* a sum followed by the complement of what it returned, of length 3
C15_Witness ==
    /\ prev.op = "sum"
    /\ Len(prev.Q) >= 1
    /\ Len(prev.recv) >= 1
    /\ out.op = "complement"
    /\ out.recv = prev.res
    /\ self = out.res
    /\ Len(self) = 3

---------------------------------------------------------------------------
(* Claims about containment, checked under SpecContainment. *)

\* the occurrences of q in P by definition: strictly increasing maps of q's
\* positions to P's whose values are in the same relative order as q's
Embeddings(q, P) ==
    {f \in [1..Len(q) -> 1..Len(P)] :
        /\ \A i, j \in 1..Len(q) : i < j => f[i] < f[j]
        /\ \A i, j \in 1..Len(q) : i < j =>
               ((q[i] < q[j]) <=> (P[f[i]] < P[f[j]]))}

\* C1: the pruned search agrees with brute force.  With last_require = 0,
\* q.involved_in(P) is true iff q has an occurrence in P, P.avoids(q) is true
\* iff it has none, and P.occurrences(q) is the number of occurrences; so
\* P.avoids(q) iff P.occurrences(q) == 0.
C1_SearchAgreesWithBruteForce ==
    /\ (out.op = "involved_in" /\ out.last_require = 0) =>
           (out.res <=> Embeddings(self, out.P) # {})
    /\ (out.op = "avoids" /\ out.last_require = 0) =>
           (out.res <=> Embeddings(self, out.P) = {})
    /\ out.op = "occurrences" =>
           out.res = Cardinality(Embeddings(self, out.P))

\* a host of length 4 that has a 3-subsequence ordered like the pattern's
\* first two entries but avoids the pattern: the search backtracks to the end
C1_Witness ==
    /\ out.op = "avoids"
    /\ out.last_require = 0
    /\ self = <<1, 2, 0>>
    /\ out.P = <<0, 1, 2, 3>>
    /\ out.res = TRUE
    /\ bounds_set

\* the occurrences of q in P whose last k indices are P's last k positions
PinnedEmbeddings(q, P, k) ==
    {f \in Embeddings(q, P) :
        \A i \in 1..k : f[Len(q) - i + 1] = Len(P) - i + 1}

LaterBelow(L, i) == {j \in (i + 1)..(Len(L) - 1) : At(L, j) < At(L, i)}

LaterAbove(L, i) == {j \in (i + 1)..(Len(L) - 1) : At(L, j) > At(L, i)}

\* C18: set_up_bounds() returns (lower_bound, upper_bound) such that for
\* every position i of the pattern lower_bound[i] is the index j > i holding
\* the largest value below pattern[i] among the positions i+1..n-1,
\* upper_bound[i] is the index j > i holding the smallest value above
\* pattern[i] among them, and each is -1 exactly when no later position
\* qualifies.  Checked on the pair involved_in stores on the instance.
C18_BoundTable ==
    bounds_set =>
        /\ Len(lower_bound) = Len(self)
        /\ Len(upper_bound) = Len(self)
        /\ \A i \in 0..(Len(self) - 1) :
               /\ IF LaterBelow(self, i) = {} THEN At(lower_bound, i) = -1
                  ELSE /\ At(lower_bound, i) \in LaterBelow(self, i)
                       /\ \A j \in LaterBelow(self, i) :
                              At(self, j) <= At(self, At(lower_bound, i))
               /\ IF LaterAbove(self, i) = {} THEN At(upper_bound, i) = -1
                  ELSE /\ At(upper_bound, i) \in LaterAbove(self, i)
                       /\ \A j \in LaterAbove(self, i) :
                              At(self, j) >= At(self, At(upper_bound, i))

\* the table of a pattern whose first entry has two larger entries after
\* it, the nearer of which is not the smaller
C18_Witness ==
    /\ bounds_set
    /\ out # NoCall
    /\ self = <<0, 2, 1>>
    /\ upper_bound = <<2, -1, -1>>
    /\ lower_bound = <<-1, 2, -1>>

\* the queries that run involved_in on the pattern instance
ContainmentQueries == {"involved_in", "avoids"}

\* C17: the bound cache is written at most once per pattern instance.  Over
\* any sequence of involved_in queries against arbitrary hosts (any
\* last_require, the queries answered by the length <= 1 shortcut included),
\* the first query runs set_up_bounds and sets bounds_set; from then on
\* bounds_set stays true, lower_bound and upper_bound keep the values of
\* set_up_bounds(), and the pattern's tuple is never altered.
C17_CacheWrittenOnce ==
    /\ [][bounds_set => /\ bounds_set'
                        /\ lower_bound' = lower_bound
                        /\ upper_bound' = upper_bound]_vars
    /\ [][(~bounds_set /\ out'.op \in ContainmentQueries) =>
              /\ bounds_set'
              /\ lower_bound' = set_up_bounds(self).lower_bound
              /\ upper_bound' = set_up_bounds(self).upper_bound]_vars
    /\ [][self' = self]_vars
    /\ [](out.op \in ContainmentQueries => bounds_set)
    /\ [](~bounds_set => (lower_bound = <<>> /\ upper_bound = <<>>))

\* a pinned query answered by the length <= 1 shortcut has left the cache
\* of a pattern of length 1 on the instance
C17_Witness ==
    /\ out.op = "involved_in"
    /\ out.last_require = 1
    /\ Len(self) = 1
    /\ Len(out.P) = 4
    /\ out.res = TRUE
    /\ bounds_set
    /\ lower_bound = <<-1>>
    /\ upper_bound = <<-1>>

---------------------------------------------------------------------------
(* Claims about decomposition and inflation, checked under                 *)
(* SpecDecomposition.                                                      *)

\* the values of t at the zero-based positions s .. s+len-1
WindowValues(t, s, len) == {t[i] : i \in (s + 1)..(s + len)}

\* the starts of the windows of len positions of t that are intervals: their
\* values are a range of len consecutive integers
IntervalStarts(t, len) ==
    {s \in 0..(Len(t) - len) :
        \E m \in 0..(Len(t) - 1) : WindowValues(t, s, len) = m..(m + len - 1)}

\* the lengths in 2..len(t)-1 that some interval of t has
IntervalLengths(t) == {len \in 2..(Len(t) - 1) : IntervalStarts(t, len) # {}}

SetMax(S) == CHOOSE x \in S : \A y \in S : y <= x

SetMin(S) == CHOOSE x \in S : \A y \in S : x <= y

\* C12: maximal_interval() returns (L, j) where L is the largest length in
\* 2..n-1 that some interval has and j is the smallest start of an interval
\* of that length; it returns (0, 0) iff there is no interval of length
\* 2..n-1.
C12_MaximalInterval ==
    out.op = "maximal_interval" =>
        LET t == out.recv
            L == SetMax(IntervalLengths(t))
        IN  IF IntervalLengths(t) = {} THEN out.res = <<0, 0>>
            ELSE out.res = <<L, SetMin(IntervalStarts(t, L))>>

\* a permutation with intervals of two lengths, whose longest intervals do
\* not start at position 0
C12_Witness ==
    /\ out.op = "maximal_interval"
    /\ Cardinality(IntervalLengths(out.recv)) >= 2
    /\ out.res[1] >= 3
    /\ out.res[2] >= 1

\* C13: is_simple(), computed by the running min/max scan of
\* simple_location, is true iff maximal_interval() returns (0, 0); so inside
\* decomposition's loop, where is_simple() is false, maximal_interval returns
\* no length 0 and the assertion `i != 0` does not fail.
C13_SimpleIffNoMaximalInterval ==
    /\ (/\ prev.op = "is_simple"
        /\ out.op = "maximal_interval"
        /\ out.recv = prev.recv) => (prev.res <=> out.res = <<0, 0>>)
    /\ (pc = "loop" /\ ~is_simple(base)) => maximal_interval(base)[1] # 0
    /\ pc # "AssertionError"

\* is_simple() and maximal_interval() called on a permutation whose longest
\* interval, of length 3, starts at position 0: it is not the window the
\* running scan meets first
C13_Witness ==
    /\ prev.op = "is_simple"
    /\ prev.res = FALSE
    /\ out.op = "maximal_interval"
    /\ out.recv = prev.recv
    /\ out.res = <<3, 0>>
    /\ Len(self) = 5

\* C19: simple_location() returns (i, j) such that, when the permutation has
\* a nontrivial interval, i is the size of an interval and j is the index of
\* its first entry: the positions j..j+i-1 hold a contiguous range of values;
\* it returns (0, 0) when there is no nontrivial interval.  The formula
\* accepts any size i >= 1 whose window lies inside the permutation.
C19_SimpleLocationSizeAndStart ==
    out.op = "simple_location" =>
        LET t == out.recv
            i == out.res[1]
            j == out.res[2]
        IN  IF IntervalLengths(t) = {} THEN out.res = <<0, 0>>
            ELSE /\ i >= 1
                 /\ j >= 0
                 /\ j + i <= Len(t)
                 /\ j \in IntervalStarts(t, i)

\* C16: decomposition() terminates for every permutation: each iteration of
\* its loop replaces base by a strictly shorter permutation, the loop runs at
\* most len(p)-2 times (not at all when len(p) <= 2), and a call that has
\* entered the loop returns.
C16_DecompositionTerminates ==
    /\ [][(pc = "loop" /\ pc' = "loop") =>
              /\ iterations' = iterations + 1
              /\ Len(base') <= Len(base) - 1
              /\ IsPermutation(base')]_vars
    /\ [](pc \in {"loop", "done", "inflated"} =>
              (iterations = 0 \/ iterations <= Len(self) - 2))
    /\ (pc = "loop" ~> pc = "done")

\* a decomposition of a permutation of length 4 that returned after
\* len(p)-2 = 2 iterations
C16_Witness ==
    /\ pc = "done"
    /\ out.op = "decomposition"
    /\ Len(self) = 4
    /\ iterations = 2
    /\ Len(out.base) = 2

\* C20: the invariant of decomposition's loop.  In every iteration every
\* position inside the chosen maximal interval base[j:j+i] still carries a
\* singleton component, so overwriting components[j:j+i] by
\* Permutation(base[j:j+i]) discards no component extracted before; and
\* len(base) == len(components) at the start of every iteration and on
\* return.
C20_IntervalCoversSingletons ==
    /\ pc \in {"loop", "done"} => Len(base) = Len(components)
    /\ out.op = "decomposition" => Len(out.base) = Len(out.components)
    /\ (pc = "loop" /\ ~is_simple(base)) =>
           LET mi == maximal_interval(base)
           IN  \A k \in mi[2]..(mi[1] + mi[2] - 1) :
                   Len(At(components, k)) = 1

\* the loop is about to contract an interval of a base that already carries
\* a component extracted by an earlier iteration
C20_Witness ==
    /\ pc = "loop"
    /\ ~is_simple(base)
    /\ iterations >= 1
    /\ \E k \in 1..Len(components) : Len(components[k]) >= 2
    /\ maximal_interval(base)[1] >= 2

\* the last two calls were p.decomposition() and then base.inflate(components)
\* on the pair it returned
DecomposeThenInflate ==
    /\ prev.op = "decomposition"
    /\ out.op = "inflate"
    /\ out.recv = prev.base
    /\ out.components = prev.components

\* C2: for every permutation p (lengths 0, 1, 2 included), if
\* (base, components) = p.decomposition() then base.inflate(components)
\* returns p.
C2_DecompositionRoundTrip ==
    DecomposeThenInflate =>
        (prev.recv = self /\ out.raised = NoError /\ out.res = self)

\* the round trip of a permutation that took two iterations of the loop: its
\* base is a simple permutation of length 4 and one component is not a
\* singleton
C2_Witness ==
    /\ DecomposeThenInflate
    /\ Len(self) = 5
    /\ Len(out.recv) = 4
    /\ out.recv # <<0, 1, 2, 3>>
    /\ out.res = self

\* t has an interval by definition: a window of len positions, 2 <= len <=
\* len(t)-1, whose values are a range of len consecutive integers
HasNontrivialInterval(t) ==
    \E len \in 2..(Len(t) - 1) : \E s \in 0..(Len(t) - len) :
        \E m \in 0..(Len(t) - 1) :
            WindowValues(t, s, len) = m..(m + len - 1)

\* C3: the base returned by p.decomposition() is simple by definition: no
\* window of between 2 and len(base)-1 positions holds a range of values.
C3_BaseIsSimple ==
    out.op = "decomposition" => ~HasNontrivialInterval(out.base)

\* a decomposition that had an interval to contract and returned a base of
\* length 4
C3_Witness ==
    /\ out.op = "decomposition"
    /\ pc = "done"
    /\ HasNontrivialInterval(out.recv)
    /\ Len(out.base) = 4

\* C7 as the specification states it: decomposition() of 2 4 1 3 5, that is
\* (1,3,0,2,4), returns the permutation itself as base and five singleton
\* components.
C7_24135IsItsOwnBase ==
    (out.op = "decomposition" /\ out.recv = <<1, 3, 0, 2, 4>>) =>
        /\ out.base = out.recv
        /\ Len(out.components) = 5
        /\ \A i \in 1..Len(out.components) : Len(out.components[i]) = 1

\* C7, amended: 2 4 1 3 5 is not simple, its first four entries are an
\* interval; decomposition() of (1,3,0,2,4) returns the base (0,1) and the two
\* components (1,3,0,2) and (0).
C7_24135Decomposition ==
    (out.op = "decomposition" /\ out.recv = <<1, 3, 0, 2, 4>>) =>
        /\ out.base = <<0, 1>>
        /\ out.components = << <<1, 3, 0, 2>>, <<0>> >>

\* decomposition() has returned for 2 4 1 3 5
C7_Witness ==
    /\ out.op = "decomposition"
    /\ out.recv = <<1, 3, 0, 2, 4>>
    /\ pc = "done"

\* the sum of f[i] over the positions i in S
RECURSIVE SumOver(_, _)
SumOver(f, S) ==
    IF S = {} THEN 0
    ELSE LET i == CHOOSE x \in S : TRUE
         IN  f[i] + SumOver(f, S \ {i})

\* the lengths of the components in cs
Lengths(cs) == [i \in 1..Len(cs) |-> Len(cs[i])]

\* the entries of c, each increased by shift
Shifted(c, shift) == [k \in 1..Len(c) |-> c[k] + shift]

\* C9 as the specification states it: the entry of base at each position,
\* of value v, is replaced by the entries of components[v], shifted by the
\* total length of the components of the entries before it in base's
\* left-to-right order, and the blocks are concatenated in positional order.
C9_InflateByValue ==
    (out.op = "inflate" /\ out.raised = NoError) =>
        LET b == out.recv
            cs == out.components
            comp(i) == cs[b[i] + 1]
            len == [i \in 1..Len(b) |-> Len(comp(i))]
        IN  out.res = Flatten([i \in 1..Len(b) |->
                          Shifted(comp(i), SumOver(len, 1..(i - 1)))])

\* C9, amended: the entry of base at each position i is replaced by the
\* entries of components[i] (the component is selected by the POSITION i),
\* shifted by the total length of the components at the positions of the
\* entries of base that are smaller than base[i] (value order), and the blocks
\* are concatenated in base's positional order.
C9_InflateByPosition ==
    (out.op = "inflate" /\ out.raised = NoError) =>
        LET b == out.recv
            cs == out.components
            smaller(i) == {j \in 1..Len(b) : b[j] < b[i]}
        IN  out.res = Flatten([i \in 1..Len(b) |->
                          Shifted(cs[i], SumOver(Lengths(cs), smaller(i)))])

\* an inflation of a base of length 3 that is not an involution, by
\* components of three different lengths
C9_Witness ==
    /\ out.op = "inflate"
    /\ out.raised = NoError
    /\ out.recv = <<1, 2, 0>>
    /\ Lengths(out.components) = <<2, 1, 0>>
    /\ prev = NoCall

===========================================================================
